---- MODULE Spec2Model ----
(***************************************************************************)
(* A model of the cursor-resumable fetch-and-ingest pipeline of            *)
(* t2i-prompt-refiner: the Cursor Store (src/db_utils.py and               *)
(* src/modules/db_utils.py), the Ingest Pipeline (src/modules/processor.py *)
(* with src/modules/datafetcher/*.py, and src/main.py), the Fetch Engine   *)
(* (src/modules/fetcher.py, src/old_file/fetch_prompts.py) and the         *)
(* Retrieval service (src/modules/llmchat/qdrant.py).                      *)
(*                                                                         *)
(* Strings are sequences of one-character strings, so that str.strip()     *)
(* and str.lower() are computed and not assumed.  Python's None (and SQL   *)
(* NULL, which sqlite3 maps to None) is the one-element sequence None.     *)
(***************************************************************************)
EXTENDS Integers, Sequences, FiniteSets, TLC

VARIABLES
    \* ---- Cursor Store (table app_settings, rows with key = 'last_cursor')
    impl,        \* which db_utils module the process imported: "root" | "modules"
    rows,        \* the values of the rows keyed 'last_cursor', in rowid order
    lastOp,      \* the cursor operation that ran last ("init" before any)
    lastArg,     \* its argument (None for load_cursor / clear_cursor)
    lastRet,     \* what it returned (None when it raised)
    lastRaised,  \* TRUE when it propagated an exception to its caller
    lastFail,    \* where the storage layer failed during it ("none": nowhere)
    preRows,     \* rows before the operation
    lastWrite    \* history: the last committed write: a save_cursor with its
                 \* token trimmed ("" as None), or a clear_cursor

VARIABLES
    \* ---- Ingest Pipeline and Vector Index (collection "civitai_images")
    pipeline,    \* the pipeline the process runs: "modules" | "main"
    index,       \* the points of the collection
    pc,          \* process_and_store: "idle" | "running" | "returned" | "raised"
    pos,         \* items of the input list consumed by the running call
    processed, stored, skipped, errors,   \* the counters of the call
    results,     \* main.py: length of the results list of the call
    storedIds,   \* main.py: st.session_state.stored_image_ids
    newIds,      \* main.py: stored_image_ids as read when new_items was built
    lastItem,    \* the item the last loop iteration took
    lastFault,   \* the service fault injected in it
    lastOutcome, \* "stored" | "skipped" | "error" | "dropped" ("none" before any)
    lastDup,     \* TRUE when a point built from the same item was in the index
    lastSteps    \* what the iteration did: see Steps; present: a point with
                 \* the item's id was in the collection before it

VARIABLES
    \* ---- Fetch Engine
    fetcher,     \* the fetch loop the process runs (see Fetchers)
    fpc,         \* "idle" | "fetching" | "ended"
    cont,        \* continue_from_last of the run
    target,      \* target_count of the run
    reqCursor,   \* the cursor parameter of the next request (None: none)
    localLast,   \* old_file: the local last_cursor of the loop
    fetched,     \* items accumulated in the run
    sessionCursor, \* st.session_state.last_cursor
    endReason,   \* why the loop ended ("none" while it runs)
    returned,    \* items the run hands on (0 when it returns None)
    prevNext,    \* history: nextCursor of the previous page of the run
    sameTwice,   \* history: two consecutive pages returned the same nextCursor
    reqAfterSame, \* history: a request was issued after that
    lastSent,    \* history: the cursor sent with the last request of the run
    lastResp,    \* history: the answer to that request
    lastSave,    \* history: how the cursor save after that answer went
    errored,     \* history: a request of the run failed
    reqAfterError, \* history: a request was issued after that
    echoed,      \* history: a page returned the cursor it was requested with
    reqAfterEcho, \* history: a request was issued after that
    covered      \* history: items of the run's pages up to the last page
                 \* that wrote its nextCursor to the Cursor Store

VARIABLES
    \* ---- Retrieval
    hits,        \* what the last get_similar_prompts call returned
    lastQuery    \* that call: its query vector, model_name, k and fault

queryVars == <<hits, lastQuery>>

VARIABLES
    \* ---- Cleanup sweep
    lastSweep    \* the last delete_non_target_models call: the collection
                 \* before it, its fault and what it returned

sweepVars == <<lastSweep>>

VARIABLES
    \* ---- concurrent save_cursor calls
    sc,          \* each caller's save_cursor call: where it is and its locals
    dbWriter,    \* the caller whose connection holds the write transaction (0: none)
    lastCommitter \* history: the caller that committed last (0: none)

raceVars == <<sc, dbWriter, lastCommitter>>

VARIABLES
    \* ---- concurrent ingest runs, one per session of the process
    batch,       \* the items both runs are given
    runs,        \* each run: the item it is at, its step and its locals
    sessModel,   \* each session's st.session_state._model (0: None)
    built,       \* history: embedding models constructed so far
    loadFailed   \* history: a construction of the model failed

concVars == <<batch, runs, sessModel, built, loadFailed>>

cursorCallVars == <<lastOp, lastArg, lastRet, lastRaised, lastFail, preRows,
                    lastWrite>>

cursorVars == <<impl, rows, cursorCallVars>>

fetchVars == <<fetcher, fpc, cont, target, reqCursor, localLast, fetched,
               sessionCursor, endReason, returned, prevNext, sameTwice,
               reqAfterSame, lastSent, lastResp, lastSave,
               errored, reqAfterError, echoed, reqAfterEcho, covered>>

counterVars == <<processed, stored, skipped, errors, results>>

ingestVars == <<pipeline, index, pc, pos, processed, stored, skipped,
                errors, results, storedIds, newIds, lastItem, lastFault,
                lastOutcome, lastDup, lastSteps>>

vars == <<cursorVars, ingestVars, fetchVars, queryVars, sweepVars, raceVars,
          concVars>>

\* what each component's operations leave alone
notCursor == <<ingestVars, fetchVars, queryVars, sweepVars, raceVars,
               concVars>>
notIngest == <<cursorVars, fetchVars, queryVars, sweepVars, raceVars,
               concVars>>
notFetch  == <<impl, cursorCallVars, ingestVars, queryVars, sweepVars,
               raceVars, concVars>>
notQuery  == <<cursorVars, ingestVars, fetchVars, sweepVars, raceVars,
               concVars>>
notRace   == <<impl, cursorCallVars, ingestVars, fetchVars, queryVars,
               sweepVars, concVars>>
notSweep  == <<cursorVars, pipeline, pc, pos, counterVars, storedIds, newIds,
               lastItem, lastFault, lastOutcome, lastDup, lastSteps,
               fetchVars, queryVars, raceVars, concVars>>
notConc   == <<cursorVars, pipeline, pc, pos, counterVars, storedIds, newIds,
               lastItem, lastFault, lastOutcome, lastDup, lastSteps,
               fetchVars, queryVars, sweepVars, raceVars>>

----------------------------------------------------------------------------
\* Bounds of the model

\* longest run of whitespace put on either side of a cursor token
MaxPad == 1

\* longest list of items given to two concurrent ingest runs
MaxBatch == 2

\* longest input list of one process_and_store call
MaxItems == 3

\* largest target_count of a fetch run
MaxTarget == 3

\* largest k of a get_similar_prompts call
MaxK == 2

----------------------------------------------------------------------------
\* Python values and strings

None == <<"<None>">>

WS == {" ", "\t"}

LowerChar(c) ==
    CASE c = "N" -> "n"
      [] c = "O" -> "o"
      [] c = "E" -> "e"
      [] c = "A" -> "a"
      [] OTHER   -> c

\* str.lower()
Lower(s) == [i \in DOMAIN s |-> LowerChar(s[i])]

RECURSIVE LStrip(_)
LStrip(s) == IF s # <<>> /\ Head(s) \in WS THEN LStrip(Tail(s)) ELSE s

RECURSIVE RStrip(_)
RStrip(s) ==
    IF s # <<>> /\ s[Len(s)] \in WS THEN RStrip(SubSeq(s, 1, Len(s) - 1)) ELSE s

\* str.strip()
Strip(s) == RStrip(LStrip(s))

\* bool(x) of an optional string: None and "" are falsy
Truthy(x) == x # None /\ x # <<>>

RECURSIVE Repeat(_, _)
Repeat(c, n) == IF n = 0 THEN <<>> ELSE <<c>> \o Repeat(c, n - 1)

Pads == {Repeat(c, n) : c \in WS, n \in 0..MaxPad}

\* the cursor tokens tried, before padding
Cores == { <<>>,
           <<"a">>,
           <<"a", " ", "b">>,
           <<"N", "o", "n", "e">>,
           <<"n", "o", "n", "e">>,
           <<"N", "O", "N", "E">>,
           <<"n", "o", "n", "e", "a">> }

Tokens == {l \o c \o r : l \in Pads, c \in Cores, r \in Pads}

CursorArgs == Tokens \cup {None}

----------------------------------------------------------------------------
\* The storage layer under the Cursor Store: sqlite3 on table app_settings
\* (key TEXT PRIMARY KEY, value TEXT, updated_at).  Only the rows keyed
\* 'last_cursor' are modelled; a row is its value column.

\* where an operation's storage calls can fail (sqlite3 raising):
\* connecting, a statement or the commit, the re-read after a commit
SaveFails  == {"none", "connect", "execute", "verify"}
LoadFails  == {"none", "connect", "execute"}
ClearFails == {"none", "connect", "execute"}

\* c.execute("SELECT value ... WHERE key = 'last_cursor'"); c.fetchone()
SqlSelect(rs) ==
    IF rs = <<>> THEN [found |-> FALSE, value |-> None]
                 ELSE [found |-> TRUE,  value |-> rs[1]]

\* UPDATE app_settings SET value = ? WHERE key = 'last_cursor'
SqlUpdate(rs, v) == [i \in DOMAIN rs |-> v]

\* INSERT INTO app_settings (key, value, ...): key is the PRIMARY KEY, so a
\* second row with the key is an IntegrityError
SqlInsert(rs, v) ==
    IF rs = <<>> THEN [ok |-> TRUE,  rows |-> <<v>>]
                 ELSE [ok |-> FALSE, rows |-> rs]

\* DELETE FROM app_settings WHERE key = 'last_cursor'
SqlDelete(rs) == <<>>

\* CursorStr without the strip() and the empty-string check
CursorStr_Verbatim(cursor) == cursor

\* save_cursor: the value written for its argument
CursorStr(cursor) ==
    IF cursor = None THEN None
    ELSE IF Strip(cursor) = <<>> THEN None ELSE Strip(cursor)

\* Upsert without the SELECT: always INSERT
Upsert_InsertOnly(rs, v) == SqlInsert(rs, v)

\* save_cursor: SELECT, then UPDATE or INSERT
Upsert(rs, v) ==
    IF SqlSelect(rs).found THEN [ok |-> TRUE, rows |-> SqlUpdate(rs, v)]
                           ELSE SqlInsert(rs, v)

\* save_cursor of src/db_utils.py: every exception is caught, the
\* transaction rolled back and None returned
save_cursor_root(rs, cursor, fail) ==
    LET w == Upsert(rs, CursorStr(cursor)) IN
    IF fail \in {"connect", "execute"} \/ ~w.ok
    THEN [rows |-> rs, ret |-> None, raised |-> FALSE]
    ELSE IF fail = "verify"
    THEN [rows |-> w.rows, ret |-> None, raised |-> FALSE]
    ELSE [rows |-> w.rows,
          ret  |-> IF SqlSelect(w.rows).found THEN SqlSelect(w.rows).value
                                              ELSE None,
          raised |-> FALSE]

\* save_cursor of src/modules/db_utils.py: get_db() closes the connection
\* and catches nothing
save_cursor_modules(rs, cursor, fail) ==
    LET w == Upsert(rs, CursorStr(cursor)) IN
    IF fail \in {"connect", "execute"} \/ ~w.ok
    THEN [rows |-> rs, ret |-> None, raised |-> TRUE]
    ELSE IF fail = "verify"
    THEN [rows |-> w.rows, ret |-> None, raised |-> TRUE]
    ELSE [rows |-> w.rows,
          ret  |-> IF SqlSelect(w.rows).found THEN SqlSelect(w.rows).value
                                              ELSE None,
          raised |-> FALSE]

\* LoadValue comparing with 'none' without lower()
LoadValue_CaseSensitive(rs) ==
    LET result == SqlSelect(rs) IN
    IF result.found /\ Truthy(result.value)
       /\ result.value # <<"n", "o", "n", "e">>
       /\ Strip(result.value) # <<>>
    THEN Strip(result.value)
    ELSE None

\* load_cursor: what it makes of the fetched row
LoadValue(rs) ==
    LET result == SqlSelect(rs) IN
    IF result.found /\ Truthy(result.value)
       /\ Lower(result.value) # <<"n", "o", "n", "e">>
       /\ Strip(result.value) # <<>>
    THEN Strip(result.value)
    ELSE None

\* load_cursor of src/db_utils.py
load_cursor_root(rs, fail) ==
    IF fail # "none"
    THEN [rows |-> rs, ret |-> None, raised |-> FALSE]
    ELSE [rows |-> rs, ret |-> LoadValue(rs), raised |-> FALSE]

\* load_cursor of src/modules/db_utils.py
load_cursor_modules(rs, fail) ==
    IF fail # "none"
    THEN [rows |-> rs, ret |-> None, raised |-> TRUE]
    ELSE [rows |-> rs, ret |-> LoadValue(rs), raised |-> FALSE]

\* clear_cursor treating a DELETE that matched no row as an error
clear_cursor_root_Strict(rs, fail) ==
    IF fail = "connect" \/ rs = <<>>
    THEN [rows |-> rs, ret |-> None, raised |-> TRUE]
    ELSE IF fail = "execute" THEN [rows |-> rs, ret |-> None, raised |-> FALSE]
    ELSE [rows |-> SqlDelete(rs), ret |-> None, raised |-> FALSE]

\* clear_cursor of src/db_utils.py: the connection is opened outside the
\* try, the DELETE and the commit inside it
clear_cursor_root(rs, fail) ==
    IF fail = "connect" THEN [rows |-> rs, ret |-> None, raised |-> TRUE]
    ELSE IF fail = "execute" THEN [rows |-> rs, ret |-> None, raised |-> FALSE]
    ELSE [rows |-> SqlDelete(rs), ret |-> None, raised |-> FALSE]

\* clear_cursor of src/modules/db_utils.py
clear_cursor_modules(rs, fail) ==
    IF fail = "connect" THEN [rows |-> rs, ret |-> None, raised |-> TRUE]
    ELSE IF fail = "execute" THEN [rows |-> rs, ret |-> None, raised |-> FALSE]
    ELSE [rows |-> SqlDelete(rs), ret |-> None, raised |-> FALSE]

\* the functions the process imported
save_cursor(m, rs, cursor, fail) ==
    IF m = "root" THEN save_cursor_root(rs, cursor, fail)
                  ELSE save_cursor_modules(rs, cursor, fail)

load_cursor(m, rs, fail) ==
    IF m = "root" THEN load_cursor_root(rs, fail)
                  ELSE load_cursor_modules(rs, fail)

clear_cursor(m, rs, fail) ==
    IF m = "root" THEN clear_cursor_root(rs, fail)
                  ELSE clear_cursor_modules(rs, fail)

----------------------------------------------------------------------------
\* The Cursor Store as a state machine: a caller issues save_cursor,
\* load_cursor and clear_cursor one after the other.

NoWrite == [kind |-> "none", val |-> None]

\* the token of a save_cursor call as the Cursor Store contract normalizes it
Normalized(t) ==
    IF t = None THEN None ELSE IF Strip(t) = <<>> THEN None ELSE Strip(t)

CursorInit ==
    /\ impl \in {"root", "modules"}
    /\ rows = <<>>
    /\ lastOp = "init"
    /\ lastArg = None
    /\ lastRet = None
    /\ lastRaised = FALSE
    /\ lastFail = "none"
    /\ preRows = <<>>
    /\ lastWrite = NoWrite

SaveCursor ==
    \E t \in CursorArgs, f \in SaveFails :
        LET r == save_cursor(impl, rows, t, f) IN
        /\ rows' = r.rows
        /\ lastOp' = "save_cursor"
        /\ lastArg' = t
        /\ lastRet' = r.ret
        /\ lastRaised' = r.raised
        /\ lastFail' = f
        /\ preRows' = rows
        /\ lastWrite' = IF f \in {"none", "verify"}
                        THEN [kind |-> "save", val |-> Normalized(t)]
                        ELSE lastWrite
        /\ UNCHANGED <<impl, notCursor>>

LoadCursor ==
    \E f \in LoadFails :
        LET r == load_cursor(impl, rows, f) IN
        /\ rows' = r.rows
        /\ lastOp' = "load_cursor"
        /\ lastArg' = None
        /\ lastRet' = r.ret
        /\ lastRaised' = r.raised
        /\ lastFail' = f
        /\ preRows' = rows
        /\ UNCHANGED <<impl, lastWrite, notCursor>>

ClearCursor ==
    \E f \in ClearFails :
        LET r == clear_cursor(impl, rows, f) IN
        /\ rows' = r.rows
        /\ lastOp' = "clear_cursor"
        /\ lastArg' = None
        /\ lastRet' = r.ret
        /\ lastRaised' = r.raised
        /\ lastFail' = f
        /\ preRows' = rows
        /\ lastWrite' = IF f = "none"
                        THEN [kind |-> "clear", val |-> None] ELSE lastWrite
        /\ UNCHANGED <<impl, notCursor>>

CursorNext == SaveCursor \/ LoadCursor \/ ClearCursor



----------------------------------------------------------------------------
\* Items as the upstream API returns them, and the points built from them

\* a dict key that is absent
Absent == "<absent>"

\* item.get("id", "") of an item without id (falsy)
NoId == 0

Ids == {1, 2}

\* st.session_state.target_models
target_models == {"Illustrious", "Flux.1 D", "Pony"}

\* a dict item: id, truthy url, meta dict (or none) with prompt, Model and
\* baseModel, top-level baseModel, stats dict (or None)
DictItem(id, url, hasMeta, prompt, mModel, mBase, base, statsOk) ==
    [kind |-> "dict", id |-> id, url |-> url, hasMeta |-> hasMeta,
     prompt |-> prompt, metaModel |-> mModel, metaBaseModel |-> mBase,
     baseModel |-> base, statsOk |-> statsOk]

Blank(kind) == [DictItem(NoId, FALSE, FALSE, <<>>, Absent, Absent, Absent, TRUE)
                    EXCEPT !.kind = kind]

\* None, {} and an object whose truth test raises
ItemNone    == Blank("none")
ItemEmpty   == Blank("empty")
ItemRaising == Blank("raising")

\* the items tried: for each id an eligible item and one with a category
\* outside the allow-list; for id 1 also the eligible item with another
\* prompt, with an empty and a whitespace-only prompt, without category, with
\* the category at top level only; and the malformed ones
Items ==
    {ItemNone, ItemEmpty, ItemRaising}
    \cup {DictItem(i, TRUE, TRUE, <<"c">>, c, c, Absent, TRUE) :
              i \in Ids, c \in {"Pony", "SDXL"}}
    \cup {DictItem(1, TRUE, TRUE, pr, "Pony", "Pony", Absent, TRUE) :
              pr \in {<<"d">>, <<>>, <<" ">>}}
    \cup {DictItem(1, TRUE, TRUE, <<"c">>, Absent, Absent, Absent, TRUE),
          DictItem(1, TRUE, TRUE, <<"c">>, Absent, Absent, "Pony", TRUE),
          DictItem(1, TRUE, FALSE, <<>>, Absent, Absent, "Pony", TRUE),
          DictItem(NoId, TRUE, TRUE, <<"c">>, "Pony", "Pony", Absent, TRUE),
          DictItem(1, FALSE, TRUE, <<"c">>, "Pony", "Pony", Absent, TRUE),
          DictItem(1, TRUE, TRUE, <<"c">>, "Pony", "Pony", Absent, FALSE)}

\* `not item`
Falsy(item) == item.kind \in {"none", "empty"}

\* a payload key the pipeline does not write
Missing == <<"<missing>">>

Min(a, b) == IF a < b THEN a ELSE b

\* the vectors np.random.rand can give, and the embedding model's
RandVectors == {0, 1}

\* model.encode(prompt): a fixed function of the text
Embed(text) ==
    IF text = <<"c">> THEN 1 ELSE IF text = <<"d">> THEN 2 ELSE 0

\* client.upsert(points=[point]): insert the point or replace the one with its id
QdrantUpsert(idx, point) == {q \in idx : q.id # point.id} \cup {point}

----------------------------------------------------------------------------
\* The pipeline of src/modules: processor.process_and_store over
\* refined_data_utils.process_item and qdrant_utils.store_in_vector_db

NoItem == [ok |-> FALSE, id |-> NoId, model |-> Absent, prompt |-> <<>>]

\* process_item of modules/datafetcher/refined_data_utils.py
process_item_modules(item) ==
    IF Falsy(item) THEN NoItem
    ELSE IF ~item.statsOk THEN NoItem          \* stats.get on None: caught
    ELSE IF item.id = NoId \/ ~item.url THEN NoItem
    ELSE [ok     |-> TRUE,
          id     |-> item.id,
          model  |-> IF item.hasMeta /\ item.metaModel # Absent
                     THEN item.metaModel
                     ELSE IF item.baseModel # Absent THEN item.baseModel
                     ELSE "",
          prompt |-> IF item.hasMeta THEN item.prompt ELSE <<>>]

ModulesFaults == {"none", "client", "upsert"}

\* store_in_vector_db of modules/datafetcher/qdrant_utils.py
\* the point store_in_vector_db builds for a processed item: its vector is
\* the drawn random one, its payload the processed item
ModulesPoint(p, src, rv) ==
    [id |-> p.id, vector |-> rv, by |-> "modules", item |-> src,
     payload |-> [model |-> p.model, prompt |-> p.prompt,
                  baseModel |-> Absent, metaPrompt |-> Missing,
                  id |-> NoId]]

store_in_vector_db(idx, p, src, fault, rv) ==
    IF fault # "none"
    THEN [ok |-> FALSE, index |-> idx]
    ELSE [ok |-> TRUE,
          index |-> QdrantUpsert(idx, ModulesPoint(p, src, rv))]

\* one iteration of the loop of modules/processor.process_and_store
ModulesIteration(idx, item, fault, rv) ==
    IF item.kind = "raising"
    THEN [index |-> idx, outcome |-> "error", failed |-> FALSE,
          dProcessed |-> 0, dStored |-> 0, dSkipped |-> 0, dErrors |-> 1]
    ELSE IF Falsy(item)
    THEN [index |-> idx, outcome |-> "skipped", failed |-> FALSE,
          dProcessed |-> 0, dStored |-> 0, dSkipped |-> 1, dErrors |-> 0]
    ELSE LET p == process_item_modules(item)
             r == store_in_vector_db(idx, p, item, fault, rv) IN
         IF p.ok /\ r.ok
         THEN [index |-> r.index, outcome |-> "stored", failed |-> FALSE,
               dProcessed |-> 1, dStored |-> 1, dSkipped |-> 0, dErrors |-> 0]
         ELSE [index |-> idx, outcome |-> "skipped", failed |-> p.ok,
               dProcessed |-> 1, dStored |-> 0, dSkipped |-> 1, dErrors |-> 0]

----------------------------------------------------------------------------
\* The pipeline of src/main.py: process_and_store over
\* process_and_save_refined_data and process_item

\* meta.get("baseModel", "Unknown")
MetaBaseModel(item) ==
    IF item.metaBaseModel = Absent THEN "Unknown" ELSE item.metaBaseModel

\* process_and_save_refined_data: the items it keeps
Refined(item) ==
    /\ item.kind = "dict"
    /\ item.hasMeta
    /\ item.prompt # <<>>
    /\ MetaBaseModel(item) \in target_models
    /\ item.id # NoId

MainFaults == {"none", "scroll", "model", "upsert"}

Exists_Never(idx, id) == FALSE

\* the scroll of process_item: a point whose payload "id" is the item's id
Exists(idx, id) == \E q \in idx : q.payload.id = id

\* the point main.process_item upserts: the embedding of the prompt, and a
\* payload of id, url, baseModel and the whole meta
MainPoint(item) ==
    [id |-> item.id, vector |-> Embed(Strip(item.prompt)),
     by |-> "main", item |-> item,
     payload |-> [model |-> Absent, prompt |-> Missing,
                  baseModel |-> MetaBaseModel(item),
                  metaPrompt |-> item.prompt,
                  id |-> item.id]]

\* process_item of src/main.py; every exception is caught and gives None
process_item_main(idx, item, fault) ==
    IF Falsy(item) \/ item.kind # "dict" \/ item.id = NoId
    THEN [ok |-> FALSE, index |-> idx, embedded |-> FALSE, checked |-> FALSE,
          failed |-> FALSE]
    ELSE IF fault = "scroll"
    THEN [ok |-> FALSE, index |-> idx, embedded |-> FALSE, checked |-> FALSE,
          failed |-> FALSE]
    ELSE IF Exists(idx, item.id)
    THEN [ok |-> FALSE, index |-> idx, embedded |-> FALSE, checked |-> TRUE,
          failed |-> FALSE]
    ELSE IF ~item.hasMeta
    THEN [ok |-> FALSE, index |-> idx, embedded |-> FALSE, checked |-> TRUE,
          failed |-> FALSE]
    ELSE IF Strip(item.prompt) = <<>>
    THEN [ok |-> FALSE, index |-> idx, embedded |-> FALSE, checked |-> TRUE,
          failed |-> FALSE]
    ELSE IF MetaBaseModel(item) \notin target_models
    THEN [ok |-> FALSE, index |-> idx, embedded |-> FALSE, checked |-> TRUE,
          failed |-> FALSE]
    ELSE IF fault = "model"
    THEN [ok |-> FALSE, index |-> idx, embedded |-> FALSE, checked |-> TRUE,
          failed |-> TRUE]
    ELSE IF fault = "upsert"
    THEN [ok |-> FALSE, index |-> idx, embedded |-> TRUE, checked |-> TRUE,
          failed |-> TRUE]
    ELSE [ok |-> TRUE, embedded |-> TRUE, checked |-> TRUE, failed |-> FALSE,
          index |-> QdrantUpsert(idx, MainPoint(item))]

\* what one iteration did besides its outcome: embedded, the embedding model
\* was called; checked, the collection was asked for the id before that;
\* failed, the embedding or the upsert failed for an item that had passed
\* every test
Steps(embedded, checked, failed) ==
    [embedded |-> embedded, checked |-> checked, failed |-> failed,
     present |-> FALSE]

NoSteps == Steps(FALSE, FALSE, FALSE)

\* a point with the id of the item is in the collection
Present(idx, item) == \E q \in idx : q.id = item.id

\* what process_and_store of src/main.py does with one item of its list:
\* dropped by process_and_save_refined_data or by the stored_image_ids
\* filter, or handed to process_item
MainIteration(idx, seen, item, fault) ==
    IF ~Refined(item) \/ item.id \in seen
    THEN [index |-> idx, outcome |-> "dropped", dResults |-> 0,
          steps |-> Steps(FALSE, FALSE, FALSE)]
    ELSE LET r == process_item_main(idx, item, fault) IN
         IF r.ok THEN [index |-> r.index, outcome |-> "stored", dResults |-> 1,
                       steps |-> Steps(r.embedded, r.checked, r.failed)]
                 ELSE [index |-> idx, outcome |-> "skipped", dResults |-> 0,
                       steps |-> Steps(r.embedded, r.checked, r.failed)]

----------------------------------------------------------------------------
\* process_and_store as a state machine: a call starts, takes the items of its
\* list one by one, and returns.

IngestIdle ==
    /\ pipeline \in {"modules", "main"}
    /\ pc = "idle"
    /\ pos = 0
    /\ processed = 0 /\ stored = 0 /\ skipped = 0 /\ errors = 0
    /\ results = 0
    /\ storedIds = {}
    /\ newIds = {}
    /\ lastItem = ItemNone
    /\ lastFault = "none"
    /\ lastOutcome = "none"
    /\ lastDup = FALSE
    /\ lastSteps = NoSteps

IngestInit == index = {} /\ IngestIdle

\* a call with a non-empty list starts
StartRun ==
    /\ pc \in {"idle", "returned", "raised"}
    /\ pc' = "running"
    /\ pos' = 0
    /\ processed' = 0 /\ stored' = 0 /\ skipped' = 0 /\ errors' = 0
    /\ results' = 0
    /\ newIds' = storedIds
    /\ lastItem' = ItemNone
    /\ lastFault' = "none"
    /\ lastOutcome' = "none"
    /\ lastDup' = FALSE
    /\ lastSteps' = NoSteps
    /\ UNCHANGED <<pipeline, index, storedIds, notIngest>>

\* a call with an empty list (or None): `if not data: return 0, 0, 0, 0`
EmptyRun ==
    /\ pc \in {"idle", "returned", "raised"}
    /\ pc' = "returned"
    /\ pos' = 0
    /\ processed' = 0 /\ stored' = 0 /\ skipped' = 0 /\ errors' = 0
    /\ results' = 0
    /\ lastItem' = ItemNone
    /\ lastFault' = "none"
    /\ lastOutcome' = "none"
    /\ lastDup' = FALSE
    /\ lastSteps' = NoSteps
    /\ UNCHANGED <<pipeline, index, storedIds, newIds, notIngest>>

ModulesStep ==
    /\ pipeline = "modules"
    /\ pc = "running"
    /\ pos < MaxItems
    /\ \E item \in Items, fault \in ModulesFaults, rv \in RandVectors :
         LET r == ModulesIteration(index, item, fault, rv) IN
         /\ index' = r.index
         /\ processed' = processed + r.dProcessed
         /\ stored' = stored + r.dStored
         /\ skipped' = skipped + r.dSkipped
         /\ errors' = errors + r.dErrors
         /\ lastItem' = item
         /\ lastFault' = fault
         /\ lastOutcome' = r.outcome
         /\ lastDup' = (\E q \in index : q.item = item)
         /\ lastSteps' = [Steps(FALSE, FALSE, r.failed) EXCEPT
                             !.present = Present(index, item)]
    /\ pos' = pos + 1
    /\ UNCHANGED <<pipeline, pc, results, storedIds, newIds, notIngest>>

MainStep ==
    /\ pipeline = "main"
    /\ pc = "running"
    /\ pos < MaxItems
    /\ \E item \in Items \ {ItemRaising}, fault \in MainFaults :
         LET r == MainIteration(index, newIds, item, fault) IN
         /\ index' = r.index
         /\ results' = results + r.dResults
         /\ storedIds' = IF r.outcome = "stored" THEN storedIds \cup {item.id}
                                                 ELSE storedIds
         /\ lastItem' = item
         /\ lastFault' = fault
         /\ lastOutcome' = r.outcome
         /\ lastDup' = (\E q \in index : q.item = item)
         /\ lastSteps' = [r.steps EXCEPT !.present = Present(index, item)]
    /\ pos' = pos + 1
    /\ UNCHANGED <<pipeline, pc, processed, stored, skipped, errors, newIds,
                   notIngest>>

\* main.py: the list holds an object whose truth test raises (or an item
\* whose id cannot be hashed for the stored_image_ids test);
\* process_and_save_refined_data (or the new_items filter) raises before any
\* item is processed and process_and_store re-raises
MainAbortRun ==
    /\ pipeline = "main"
    /\ pc \in {"idle", "returned", "raised"}
    /\ pc' = "raised"
    /\ pos' = 0
    /\ processed' = 0 /\ stored' = 0 /\ skipped' = 0 /\ errors' = 0
    /\ results' = 0
    /\ lastItem' = ItemRaising
    /\ lastFault' = "none"
    /\ lastOutcome' = "error"
    /\ lastDup' = FALSE
    /\ lastSteps' = NoSteps
    /\ UNCHANGED <<pipeline, index, storedIds, newIds, notIngest>>

\* the list is exhausted: the call returns its counters
ReturnRun ==
    /\ pc = "running"
    /\ pos >= 1
    /\ pc' = "returned"
    /\ UNCHANGED <<pipeline, index, pos, counterVars, storedIds, newIds,
                   lastItem, lastFault, lastOutcome, lastDup, lastSteps,
                   notIngest>>

IngestNext ==
    StartRun \/ EmptyRun \/ ModulesStep \/ MainStep \/ MainAbortRun \/ ReturnRun

----------------------------------------------------------------------------
\* The Fetch Engine: the page loops of src/old_file/fetch_prompts.py
\* (fetch_data, check_new_images), src/modules/fetcher.py, src/main.py and
\* src/modules/datafetcher/fetcher.py (fetch_data), against an upstream that
\* answers each request as it likes.

Fetchers == {"old_fetch_data", "old_check_new_images", "modules_fetcher",
             "main_fetcher", "datafetcher"}

\* the db_utils module a loop imports
ImplOf(fr) == IF fr = "datafetcher" THEN "modules" ELSE "root"

\* no page received yet in the run
NoPage == <<"<no page>">>

\* metadata.nextCursor of a response: absent, empty, or a token
NextCursors == {None, <<>>, <<"a">>, <<"b">>, <<"N", "o", "n", "e">>}

\* items of a response
PageSizes == {0, 1, 2}

\* a response: HTTP 200 with n items, fresh of them dicts not fetched before
\* in the run, and nextCursor; another status; or requests.get raising
Responses ==
    {r \in [status : {"ok"}, n : PageSizes, fresh : PageSizes,
             next : NextCursors] : r.fresh <= r.n}
    \cup {[status |-> st, n |-> 0, fresh |-> 0, next |-> None] :
            st \in {"http_error", "exception"}}

NoResp == [status |-> "none", n |-> 0, fresh |-> 0, next |-> None]

\* how save_cursor can fail during a fetch
FetchSaveFails == {"none", "execute"}

\* the cursor a run starts from.  old_file: st.session_state.last_cursor,
\* trimmed, when continuing; main.py: st.session_state.last_cursor;
\* modules: load_cursor() when continuing
StartCursor(fr, c, session, rs, fail) ==
    IF ~c THEN None
    ELSE IF fr \in {"modules_fetcher", "datafetcher"}
    THEN load_cursor(ImplOf(fr), rs, fail).ret
    ELSE IF fr = "main_fetcher"
    THEN (IF Truthy(session) THEN session ELSE None)
    ELSE IF Truthy(session) /\ Strip(session) # <<>> THEN Strip(session)
    ELSE None

\* the loop state after one page; go: the loop issues another request
Loop(go, reason, cur, last, n, session, rs) ==
    [go |-> go, reason |-> reason, cursor |-> cur, last |-> last,
     fetched |-> n, session |-> session, rows |-> rs]

\* what a loop does when the request fails: it leaves the loop
FailFast_Retry(cur, last, n, session, rs) ==
    Loop(TRUE, "none", cur, last, n, session, rs)

FailFast(cur, last, n, session, rs) ==
    Loop(FALSE, "error", cur, last, n, session, rs)

\* one pass of the while loop of old_file fetch_data (lines 216-262)
OldFetchDataPage(cur, last, n, tgt, session, rs, resp, fail) ==
    IF resp.status # "ok" THEN FailFast(cur, last, n, session, rs)
    ELSE IF resp.n = 0 THEN Loop(FALSE, "exhausted", cur, last, n, session, rs)
    ELSE LET total == n + resp.n IN
         IF total < tgt /\ Truthy(resp.next)
         THEN LET nc == Strip(resp.next) IN
              IF nc # <<>> /\ nc # last
              THEN LET sv == save_cursor("root", rs, nc, fail) IN
                   IF Truthy(sv.ret)
                   THEN Loop(TRUE, "none", sv.ret, nc, total, sv.ret, sv.rows)
                   ELSE Loop(FALSE, "save_failed", cur, nc, total, session,
                             sv.rows)
              ELSE Loop(FALSE, "no_progress", cur, last, total, session, rs)
         ELSE Loop(FALSE, IF total >= tgt THEN "target" ELSE "no_cursor",
                   cur, last, total, session, rs)

\* one pass of the while loop of old_file check_new_images (lines 395-442):
\* as fetch_data, but the test of the cursor against last_cursor has no else
CheckNewImagesPage(cur, last, n, tgt, session, rs, resp, fail) ==
    IF resp.status # "ok" THEN FailFast(cur, last, n, session, rs)
    ELSE IF resp.n = 0 THEN Loop(FALSE, "exhausted", cur, last, n, session, rs)
    ELSE LET total == n + resp.n IN
         IF total < tgt /\ Truthy(resp.next)
         THEN LET nc == Strip(resp.next) IN
              IF nc # <<>> /\ nc # last
              THEN LET sv == save_cursor("root", rs, nc, fail) IN
                   IF Truthy(sv.ret)
                   THEN Loop(TRUE, "none", sv.ret, nc, total, sv.ret, sv.rows)
                   ELSE Loop(FALSE, "save_failed", cur, nc, total, session,
                             sv.rows)
              ELSE Loop(TRUE, "none", cur, last, total, session, rs)
         ELSE Loop(FALSE, IF total >= tgt THEN "target" ELSE "no_cursor",
                   cur, last, total, session, rs)

\* one pass of the while loop of modules/fetcher.py fetch_data (lines 26-62);
\* a failed request raises into the except of the function
ModulesFetcherPage(cur, last, n, tgt, session, rs, resp, fail) ==
    IF resp.status # "ok" THEN FailFast(cur, last, n, session, rs)
    ELSE IF resp.n = 0 THEN Loop(FALSE, "exhausted", cur, last, n, session, rs)
    ELSE LET total == n + resp.n IN
         IF Truthy(resp.next)
         THEN LET sv == save_cursor("root", rs, resp.next, fail) IN
              IF total >= tgt
              THEN Loop(FALSE, "target", resp.next, last, total, session,
                        sv.rows)
              ELSE Loop(TRUE, "none", resp.next, last, total, session, sv.rows)
         ELSE Loop(FALSE, "no_cursor", resp.next, last, total, session, rs)

\* one pass of the while loop of main.py fetch_data (lines 278-320): only
\* items not yet in data count, and the cursor lives in the session alone
MainFetcherPage(cur, last, n, tgt, session, rs, resp, fail) ==
    IF resp.status # "ok" THEN FailFast(cur, last, n, session, rs)
    ELSE IF resp.n = 0 THEN Loop(FALSE, "exhausted", cur, last, n, session, rs)
    ELSE LET total == n + resp.fresh IN
         IF ~Truthy(resp.next)
         THEN Loop(FALSE, "no_cursor", resp.next, last, total, resp.next, rs)
         ELSE IF total >= tgt
         THEN Loop(FALSE, "target", resp.next, last, total, resp.next, rs)
         ELSE Loop(TRUE, "none", resp.next, last, total, resp.next, rs)

\* the generator of modules/datafetcher/fetcher.py up to its first yield
\* (lines 25-59) and what check_new_images of modules/datafetcher/ui.py does
\* with the batch (lines 131-140): it returns on stop_fetch, else it extends
\* all_data and st.rerun() halts the script
DatafetcherPage(cur, last, n, tgt, session, rs, resp, fail, stop) ==
    IF resp.status # "ok" THEN FailFast(cur, last, n, session, rs)
    ELSE IF resp.n = 0 THEN Loop(FALSE, "exhausted", cur, last, n, session, rs)
    ELSE LET sv == IF Truthy(resp.next)
                   THEN save_cursor("modules", rs, resp.next, fail)
                   ELSE [rows |-> rs, ret |-> None, raised |-> FALSE]
         IN  IF sv.raised
             THEN Loop(FALSE, "save_failed", resp.next, last, n, session,
                       sv.rows)
             ELSE IF stop
             THEN Loop(FALSE, "stopped", resp.next, last, n + resp.n, session,
                       sv.rows)
             ELSE Loop(FALSE, "rerun", resp.next, last, n + resp.n, session,
                       sv.rows)

Page(fr, cur, last, n, tgt, session, rs, resp, fail, stop) ==
    CASE fr = "old_fetch_data" ->
             OldFetchDataPage(cur, last, n, tgt, session, rs, resp, fail)
      [] fr = "old_check_new_images" ->
             CheckNewImagesPage(cur, last, n, tgt, session, rs, resp, fail)
      [] fr = "modules_fetcher" ->
             ModulesFetcherPage(cur, last, n, tgt, session, rs, resp, fail)
      [] fr = "main_fetcher" ->
             MainFetcherPage(cur, last, n, tgt, session, rs, resp, fail)
      [] fr = "datafetcher" ->
             DatafetcherPage(cur, last, n, tgt, session, rs, resp, fail, stop)

\* HandedOn with the batches fetched before a stop passed on to processing
HandedOn_StoppedIngests(fr, n, tgt, reason) ==
    IF fr = "old_fetch_data" /\ n > tgt THEN tgt
    ELSE IF fr = "modules_fetcher" /\ reason = "error" THEN 0
    ELSE IF fr = "datafetcher" /\ reason # "stopped" THEN 0
    ELSE n

\* what the run hands on for ingestion.  old fetch_data returns
\* all_data[:target_count]; modules/fetcher.py returns None from its except;
\* modules/datafetcher/ui.py processes nothing after a stop, an exception or
\* a rerun; the others hand on all they accumulated
HandedOn(fr, n, tgt, reason) ==
    IF fr = "old_fetch_data" /\ n > tgt THEN tgt
    ELSE IF fr = "modules_fetcher" /\ reason = "error" THEN 0
    ELSE IF fr = "datafetcher" THEN 0
    ELSE n

\* the stored cursor is the page's nextCursor: a later run that continues
\* from the store starts behind the page (counted for a page that wrote it)
Stored(rs, next) ==
    Truthy(next) /\ SqlSelect(rs).found /\ SqlSelect(rs).value = CursorStr(next)

FetchInit ==
    /\ fetcher \in Fetchers
    /\ fpc = "idle"
    /\ cont = FALSE
    /\ target = 1
    /\ reqCursor = None
    /\ localLast = None
    /\ fetched = 0
    /\ sessionCursor = None
    /\ endReason = "none"
    /\ returned = 0
    /\ prevNext = NoPage
    /\ sameTwice = FALSE
    /\ reqAfterSame = FALSE
    /\ lastSent = None
    /\ lastResp = NoResp
    /\ lastSave = "none"
    /\ errored = FALSE
    /\ reqAfterError = FALSE
    /\ echoed = FALSE
    /\ reqAfterEcho = FALSE
    /\ covered = 0

\* a run starts: "new" or "continue from last", with a target count
FetchStart ==
    /\ fpc \in {"idle", "ended"}
    /\ \E c \in BOOLEAN, tgt \in 1..MaxTarget, fail \in LoadFails :
         /\ cont' = c
         /\ target' = tgt
         /\ reqCursor' = StartCursor(fetcher, c, sessionCursor, rows, fail)
         /\ lastSave' = fail
    /\ fpc' = "fetching"
    /\ localLast' = None
    /\ fetched' = 0
    /\ endReason' = "none"
    /\ returned' = 0
    /\ prevNext' = NoPage
    /\ sameTwice' = FALSE
    /\ reqAfterSame' = FALSE
    /\ lastSent' = None
    /\ lastResp' = NoResp
    /\ errored' = FALSE
    /\ reqAfterError' = FALSE
    /\ echoed' = FALSE
    /\ reqAfterEcho' = FALSE
    /\ covered' = 0
    /\ UNCHANGED <<fetcher, sessionCursor, rows, notFetch>>

\* one request and what the loop does with its response
FetchPage ==
    /\ fpc = "fetching"
    /\ \E resp \in Responses, fail \in FetchSaveFails, stop \in BOOLEAN :
         LET r == Page(fetcher, reqCursor, localLast, fetched, target,
                       sessionCursor, rows, resp, fail, stop)
             page == resp.status = "ok" /\ resp.n > 0
         IN
         /\ fpc' = IF r.go THEN "fetching" ELSE "ended"
         /\ endReason' = r.reason
         /\ reqCursor' = r.cursor
         /\ localLast' = r.last
         /\ fetched' = r.fetched
         /\ sessionCursor' = r.session
         /\ rows' = r.rows
         /\ returned' = IF r.go THEN 0
                        ELSE HandedOn(fetcher, r.fetched, target, r.reason)
         /\ prevNext' = IF resp.status = "ok" THEN resp.next ELSE prevNext
         /\ sameTwice' = (sameTwice \/ (resp.status = "ok" /\ Truthy(resp.next)
                                          /\ resp.next = prevNext))
         /\ reqAfterSame' = (reqAfterSame \/ sameTwice)
         /\ lastSent' = reqCursor
         /\ lastResp' = resp
         /\ lastSave' = fail
         /\ errored' = (errored \/ resp.status # "ok")
         /\ reqAfterError' = (reqAfterError \/ errored)
         /\ echoed' = (echoed \/ (page /\ Truthy(reqCursor)
                                    /\ resp.next = reqCursor))
         /\ reqAfterEcho' = (reqAfterEcho \/ echoed)
         /\ covered' = IF page /\ r.rows # rows /\ Stored(r.rows, resp.next)
                        THEN fetched + resp.n ELSE covered
    /\ UNCHANGED <<fetcher, cont, target, notFetch>>

FetchNext == FetchStart \/ FetchPage

----------------------------------------------------------------------------
\* Retrieval: get_similar_prompts of src/modules/llmchat/qdrant.py over the
\* collection, whose search answers with the best-scoring points that pass
\* the filter, best first, in any order among equal scores.

\* the score of a point for a query vector: the closer, the higher
Score(qv, v) == IF qv = v THEN 2 ELSE 1

\* the points that pass Filter(must=[FieldCondition(key="model",
\* match=MatchValue(value=model_name))])
Matches_NoFilter(idx, model_name) == idx

Matches(idx, model_name) == {q \in idx : q.payload.model = model_name}

\* client.search(query_vector, limit=k, query_filter): the answers it may give
Search(idx, qv, model_name, k) ==
    LET ms == Matches(idx, model_name)
        n  == Min(k, Cardinality(ms))
    IN  {s \in [1..n -> ms] :
            /\ \A i, j \in 1..n : i < j =>
                   /\ s[i] # s[j]
                   /\ Score(qv, s[i].vector) >= Score(qv, s[j].vector)
            /\ \A q \in ms : (\A i \in 1..n : s[i] # q) =>
                   \A i \in 1..n : Score(qv, s[i].vector) >= Score(qv, q.vector)}

\* hit.payload.get("prompt") is truthy
HasPrompt(q) == q.payload.prompt # Missing /\ Truthy(q.payload.prompt)

RECURSIVE SelectHits(_, _)
\* the loop over search_result: a prompt_data for every hit with a prompt
\* (id is the hit's point, kept to tell where a result came from)
SelectHits(found, qv) ==
    IF found = <<>> THEN <<>>
    ELSE LET hit == Head(found) IN
         (IF HasPrompt(hit)
          THEN <<[prompt |-> hit.payload.prompt,
                  score |-> Score(qv, hit.vector), id |-> hit.id]>>
          ELSE <<>>) \o SelectHits(Tail(found), qv)

QueryFaults == {"none", "client", "search"}

\* get_similar_prompts(prompt, model_name, k): the lists it may return
get_similar_prompts(idx, prompt, model_name, k, fault) ==
    IF fault # "none" THEN {<<>>}
    ELSE {SelectHits(found, Embed(prompt)) :
              found \in Search(idx, Embed(prompt), model_name, k)}

\* the points a collection can hold for the queries
QueryIds == {1, 2, 3}

SeedPoint(id, v, model, prompt) ==
    [id |-> id, vector |-> v, by |-> "seed", item |-> ItemNone,
     payload |-> [model |-> model, prompt |-> prompt, baseModel |-> Absent,
                  metaPrompt |-> Missing, id |-> NoId]]

SeedModels == {"Pony", "pony", "SDXL"}

SeedPoints(id) ==
    {SeedPoint(id, v, mo, pr) :
        v \in RandVectors, mo \in SeedModels, pr \in {<<"c">>, <<>>}}

\* every collection with at most one point per id
Collections ==
    {UNION {f[i] : i \in QueryIds} :
        f \in {g \in [QueryIds -> {{}} \cup {{q} : q \in UNION {SeedPoints(i) : i \in QueryIds}}] :
                  \A i \in QueryIds : g[i] \subseteq SeedPoints(i)}}

NoQuery == [op |-> "none", prompt |-> <<>>, model |-> Absent, k |-> 0,
            fault |-> "none"]

QueryInit == hits = <<>> /\ lastQuery = NoQuery

QueryPrompts == {<<"c">>, <<"x">>}

Query ==
    /\ \E prompt \in QueryPrompts, model_name \in {"Pony", "SDXL"},
          k \in 1..MaxK, fault \in QueryFaults :
         /\ hits' \in get_similar_prompts(index, prompt, model_name, k, fault)
         /\ lastQuery' = [op |-> "query", prompt |-> prompt,
                          model |-> model_name, k |-> k, fault |-> fault]
    /\ UNCHANGED notQuery

QueryNext == Query

----------------------------------------------------------------------------
\* The cleanup sweep: delete_non_target_models of src/main.py over the
\* collection, whose scroll answers with the first points in order of id.

\* limit of the one scroll request (1000 in the source, scaled down)
ScrollLimit == 2

SweepIds == {1, 2, 3}

\* a point as process_item of src/main.py stores it
SweepPoint(id, base) ==
    [id |-> id, vector |-> 0, by |-> "seed", item |-> ItemNone,
     payload |-> [model |-> Absent, prompt |-> Missing, baseModel |-> base,
                  metaPrompt |-> <<"c">>, id |-> id]]

\* payload baseModel of a stored point; Absent: the payload has no such key
SweepModels == {"Pony", "Illustrious", "SDXL", Absent}

\* every collection with at most one point per id
SweepCollections ==
    {UNION {f[i] : i \in SweepIds} :
        f \in {g \in [SweepIds -> {{}} \cup {{SweepPoint(i, b)} : i \in SweepIds, b \in SweepModels}] :
                  \A i \in SweepIds : \A q \in g[i] : q.id = i}}

\* client.scroll(limit): the first points of the collection by id, at most limit
Scroll(idx, limit) ==
    {q \in idx : Cardinality({r \in idx : r.id < q.id}) < limit}

\* record.payload.get("baseModel", "Unknown")
PayloadBaseModel(q) ==
    IF q.payload.baseModel = Absent THEN "Unknown" ELSE q.payload.baseModel

\* the ids the loop over the records collects
PointsToDelete(records) ==
    {q.id : q \in {r \in records : PayloadBaseModel(r) \notin target_models}}

SweepFaults == {"none", "scroll", "delete"}

\* delete_non_target_models(): the collection afterwards and the count returned
delete_non_target_models(idx, fault) ==
    IF fault = "scroll" THEN [index |-> idx, ret |-> 0]
    ELSE LET points_to_delete == PointsToDelete(Scroll(idx, ScrollLimit)) IN
         IF points_to_delete = {}
         THEN [index |-> idx, ret |-> 0]
         ELSE IF fault = "delete" THEN [index |-> idx, ret |-> 0]
         ELSE [index |-> {q \in idx : q.id \notin points_to_delete},
               ret |-> Cardinality(points_to_delete)]

NoSweep == [op |-> "none", pre |-> {}, fault |-> "none", ret |-> 0]

SweepInit == lastSweep = NoSweep

Sweep ==
    /\ \E fault \in SweepFaults :
         LET r == delete_non_target_models(index, fault) IN
         /\ index' = r.index
         /\ lastSweep' = [op |-> "sweep", pre |-> index, fault |-> fault,
                          ret |-> r.ret]
    /\ UNCHANGED notSweep

SweepNext == Sweep

----------------------------------------------------------------------------
\* Two callers in save_cursor at once, each on its own sqlite3 connection
\* (journal_mode WAL, busy_timeout set): the SELECT reads the committed rows,
\* the UPDATE or INSERT opens the write transaction, which one connection
\* holds at a time while the other waits, and the commit publishes the write.

Procs == {1, 2}

RaceArgs == {<<"a">>, <<"b">>, <<" ", "a">>}

Frame(at, arg, existing, ret, failed) ==
    [pc |-> at, arg |-> arg, existing |-> existing, ret |-> ret,
     failed |-> failed]

RaceInit ==
    /\ sc = [p \in Procs |-> Frame("idle", None, FALSE, None, FALSE)]
    /\ dbWriter = 0
    /\ lastCommitter = 0

\* save_cursor(cursor) is called
RaceCall ==
    /\ \E p \in Procs, t \in RaceArgs :
         /\ sc[p].pc \in {"idle", "done"}
         /\ sc' = [sc EXCEPT ![p] = Frame("select", t, FALSE, None, FALSE)]
    /\ UNCHANGED <<rows, dbWriter, lastCommitter, notRace>>

\* c.execute("SELECT value ..."); existing = c.fetchone()
RaceSelect ==
    /\ \E p \in Procs :
         /\ sc[p].pc = "select"
         /\ sc' = [sc EXCEPT ![p].pc = "write",
                             ![p].existing = SqlSelect(rows).found]
    /\ UNCHANGED <<rows, dbWriter, lastCommitter, notRace>>

\* the UPDATE or the INSERT, once no other connection holds the write
\* transaction; an INSERT that finds a committed row with the key raises
\* sqlite3.IntegrityError, which ends the call
RaceWrite ==
    /\ dbWriter = 0
    /\ \E p \in Procs :
         /\ sc[p].pc = "write"
         /\ IF sc[p].existing \/ SqlInsert(rows, CursorStr(sc[p].arg)).ok
            THEN /\ sc' = [sc EXCEPT ![p].pc = "commit"]
                 /\ dbWriter' = p
            ELSE /\ sc' = [sc EXCEPT ![p].pc = "done", ![p].failed = TRUE]
                 /\ dbWriter' = 0
    /\ UNCHANGED <<rows, lastCommitter, notRace>>

\* conn.commit()
RaceCommit ==
    /\ \E p \in Procs :
         /\ sc[p].pc = "commit"
         /\ rows' = IF sc[p].existing
                    THEN SqlUpdate(rows, CursorStr(sc[p].arg))
                    ELSE SqlInsert(rows, CursorStr(sc[p].arg)).rows
         /\ sc' = [sc EXCEPT ![p].pc = "verify"]
         /\ lastCommitter' = p
    /\ dbWriter' = 0
    /\ UNCHANGED notRace

\* the SELECT after the commit; return saved_value
RaceVerify ==
    /\ \E p \in Procs :
         /\ sc[p].pc = "verify"
         /\ sc' = [sc EXCEPT ![p].pc = "done",
                             ![p].ret = SqlSelect(rows).value]
    /\ UNCHANGED <<rows, dbWriter, lastCommitter, notRace>>

RaceNext == RaceCall \/ RaceSelect \/ RaceWrite \/ RaceCommit \/ RaceVerify

----------------------------------------------------------------------------
\* Two ingest runs over the same items at once, each in its own session of
\* the process: the steps of main.process_item (the exists check, get_model,
\* encode, upsert) and of the modules pipeline (process_item, the vector
\* draw, upsert) interleave on the one collection.

\* the items given to both runs: an eligible one, the same id with another
\* prompt, and one with a category outside the allow-list
ConcItems ==
    {DictItem(1, TRUE, TRUE, <<"c">>, "Pony", "Pony", Absent, TRUE),
     DictItem(1, TRUE, TRUE, <<"d">>, "Pony", "Pony", Absent, TRUE),
     DictItem(2, TRUE, TRUE, <<"c">>, "SDXL", "SDXL", Absent, TRUE)}

Batches == UNION {[1..n -> ConcItems] : n \in 1..MaxBatch}

\* a run: the position of its item in the list, its step, the model
\* get_model gave it (0: None) and the vector it computed
Run(at, step, model, vec) ==
    [pos |-> at, step |-> step, model |-> model, vec |-> vec]

\* the run moves to its next item, or returns
Advance(r) ==
    IF r.pos < Len(batch) THEN Run(r.pos + 1, "start", r.model, 0)
                          ELSE Run(r.pos, "done", r.model, 0)

ConcIdle ==
    /\ batch = <<>>
    /\ runs = [p \in Procs |-> Run(0, "idle", 0, 0)]
    /\ sessModel = [p \in Procs |-> 0]
    /\ built = 0
    /\ loadFailed = FALSE

ConcInit ==
    /\ batch \in Batches
    /\ runs = [p \in Procs |-> Run(1, "start", 0, 0)]
    /\ sessModel = [p \in Procs |-> 0]
    /\ built = 0
    /\ loadFailed = FALSE

\* main.py: the filters of process_and_store and the scroll for the id, then
\* the tests on meta, prompt and baseModel; modules: process_item
ConcCheck ==
    /\ \E p \in Procs :
         LET r == runs[p]
             item == batch[r.pos] IN
         /\ r.step = "start"
         /\ runs' = [runs EXCEPT ![p] =
              IF pipeline = "main"
              THEN IF /\ Refined(item)
                      /\ ~Exists(index, item.id)
                      /\ process_item_main({}, item, "none").ok
                   THEN Run(r.pos, "model", r.model, 0)
                   ELSE Advance(r)
              ELSE IF process_item_modules(item).ok
                   THEN Run(r.pos, "encode", r.model, 0)
                   ELSE Advance(r)]
    /\ UNCHANGED <<index, batch, sessModel, built, loadFailed, notConc>>

\* get_model(): the session's model, constructed when the session has none;
\* a failed construction leaves None
ConcGetModel ==
    /\ \E p \in Procs, ok \in BOOLEAN :
         /\ runs[p].step = "model"
         /\ IF sessModel[p] # 0
            THEN /\ runs' = [runs EXCEPT ![p].step = "encode",
                                         ![p].model = sessModel[p]]
                 /\ UNCHANGED <<sessModel, built, loadFailed>>
            ELSE IF ok
            THEN /\ built' = built + 1
                 /\ sessModel' = [sessModel EXCEPT ![p] = built + 1]
                 /\ runs' = [runs EXCEPT ![p].step = "encode",
                                         ![p].model = built + 1]
                 /\ UNCHANGED loadFailed
            ELSE /\ loadFailed' = TRUE
                 /\ runs' = [runs EXCEPT ![p].step = "encode",
                                         ![p].model = 0]
                 /\ UNCHANGED <<sessModel, built>>
    /\ UNCHANGED <<index, batch, notConc>>

\* main.py: model.encode(prompt), which raises on None and so ends the item;
\* modules: np.random.rand
ConcEmbed ==
    /\ \E p \in Procs, rv \in RandVectors :
         LET r == runs[p]
             item == batch[r.pos] IN
         /\ r.step = "encode"
         /\ runs' = [runs EXCEPT ![p] =
              IF pipeline = "main"
              THEN IF r.model = 0 THEN Advance(r)
                   ELSE Run(r.pos, "upsert", r.model, MainPoint(item).vector)
              ELSE Run(r.pos, "upsert", r.model, rv)]
    /\ UNCHANGED <<index, batch, sessModel, built, loadFailed, notConc>>

\* client.upsert of the point
ConcUpsert ==
    /\ \E p \in Procs :
         LET r == runs[p]
             item == batch[r.pos] IN
         /\ r.step = "upsert"
         /\ index' = QdrantUpsert(index,
              IF pipeline = "main"
              THEN [MainPoint(item) EXCEPT !.vector = r.vec]
              ELSE ModulesPoint(process_item_modules(item), item, r.vec))
         /\ runs' = [runs EXCEPT ![p] = Advance(r)]
    /\ UNCHANGED <<batch, sessModel, built, loadFailed, notConc>>

ConcNext == ConcCheck \/ ConcGetModel \/ ConcEmbed \/ ConcUpsert

----------------------------------------------------------------------------
\* The handlers of the apps side by side on the one database and the one
\* collection: the fetch loop, process_and_store over what the loop handed
\* on, the cleanup sweep, retrieval, and the "clear saved cursor" button.
\* Only the program's own state moves here; the history variables rest.

fetchHistVars == <<prevNext, sameTwice, reqAfterSame, lastSent, lastResp,
                   lastSave, errored, reqAfterError, echoed, reqAfterEcho,
                   covered>>

ingestCallVars == <<pipeline, pc, pos, counterVars, storedIds, newIds,
                    lastItem, lastFault, lastOutcome, lastDup, lastSteps>>

appRest == <<impl, cursorCallVars, ingestCallVars, fetcher, fetchHistVars,
             lastQuery, sweepVars, raceVars, concVars>>

\* what process_and_store, delete_non_target_models and get_similar_prompts
\* leave in app_settings: none of them calls save_cursor or clear_cursor
CursorStoreAfter_IngestClears(handler, rs) ==
    IF handler = "process_and_store" THEN <<>> ELSE rs

CursorStoreAfter(handler, rs) == rs

\* the items a fetch hands on
AppItems ==
    {DictItem(1, TRUE, TRUE, <<"c">>, "Pony", "Pony", Absent, TRUE),
     DictItem(2, TRUE, TRUE, <<"c">>, "SDXL", "SDXL", Absent, TRUE)}

\* the target counts asked of a fetch and the limits asked of retrieval
AppTargets == {1, 2}
AppLimits == {1, 2}

\* the fetch button: a run starts
AppFetchStart ==
    /\ fpc \in {"idle", "ended"}
    /\ \E c \in BOOLEAN, tgt \in AppTargets, fail \in LoadFails :
         /\ cont' = c
         /\ target' = tgt
         /\ reqCursor' = StartCursor(fetcher, c, sessionCursor, rows, fail)
    /\ fpc' = "fetching"
    /\ localLast' = None
    /\ fetched' = 0
    /\ endReason' = "none"
    /\ returned' = 0
    /\ UNCHANGED <<rows, sessionCursor, index, hits, appRest>>

\* one request of the page loop and what the loop does with its response
AppFetchPage ==
    /\ fpc = "fetching"
    /\ \E resp \in Responses, fail \in FetchSaveFails :
         LET r == Page(fetcher, reqCursor, localLast, fetched, target,
                       sessionCursor, rows, resp, fail, FALSE)
         IN
         /\ fpc' = IF r.go THEN "fetching" ELSE "ended"
         /\ endReason' = r.reason
         /\ reqCursor' = r.cursor
         /\ localLast' = r.last
         /\ fetched' = r.fetched
         /\ sessionCursor' = r.session
         /\ rows' = r.rows
         /\ returned' = IF r.go THEN 0
                        ELSE HandedOn(fetcher, r.fetched, target, r.reason)
    /\ UNCHANGED <<cont, target, index, hits, appRest>>

\* process_and_store takes the next item the fetch handed on
AppIngestItem ==
    /\ fpc = "ended"
    /\ returned > 0
    /\ \E item \in AppItems, fault \in ModulesFaults, rv \in RandVectors :
         index' = ModulesIteration(index, item, fault, rv).index
    /\ returned' = returned - 1
    /\ rows' = CursorStoreAfter("process_and_store", rows)
    /\ UNCHANGED <<fpc, cont, target, reqCursor, localLast, fetched,
                   endReason, sessionCursor, hits, appRest>>

\* the cleanup button
AppSweep ==
    /\ \E fault \in SweepFaults :
         index' = delete_non_target_models(index, fault).index
    /\ rows' = CursorStoreAfter("delete_non_target_models", rows)
    /\ UNCHANGED <<fpc, cont, target, reqCursor, localLast, fetched,
                   endReason, returned, sessionCursor, hits, appRest>>

\* a chat turn looks up similar prompts
AppQuery ==
    /\ \E prompt \in QueryPrompts, model_name \in {"Pony", "SDXL"},
          k \in AppLimits, fault \in QueryFaults :
         hits' \in get_similar_prompts(index, prompt, model_name, k, fault)
    /\ rows' = CursorStoreAfter("get_similar_prompts", rows)
    /\ UNCHANGED <<fpc, cont, target, reqCursor, localLast, fetched,
                   endReason, returned, sessionCursor, index, appRest>>

\* clear_saved_cursor(): the session's cursor and the stored one
ClearSavedCursor ==
    /\ sessionCursor' = None
    /\ \E f \in ClearFails : rows' = clear_cursor("root", rows, f).rows
    /\ UNCHANGED <<fpc, cont, target, reqCursor, localLast, fetched,
                   endReason, returned, index, hits, appRest>>

AppNext ==
    \/ AppFetchStart \/ AppFetchPage \/ AppIngestItem
    \/ AppSweep \/ AppQuery \/ ClearSavedCursor

----------------------------------------------------------------------------
\* Specifications

\* the Cursor Store alone, under either db_utils module
InitCursorOnly ==
    /\ CursorInit
    /\ IngestInit /\ pipeline = "modules"
    /\ FetchInit /\ fetcher = "old_fetch_data"
    /\ QueryInit
    /\ SweepInit
    /\ RaceInit
    /\ ConcIdle

SpecCursor == InitCursorOnly /\ [][CursorNext]_vars

\* the Ingest Pipeline alone, under either pipeline
InitIngestOnly ==
    /\ CursorInit /\ impl = "root"
    /\ IngestInit
    /\ FetchInit /\ fetcher = "old_fetch_data"
    /\ QueryInit
    /\ SweepInit
    /\ RaceInit
    /\ ConcIdle

SpecIngest == InitIngestOnly /\ [][IngestNext]_vars

\* the Fetch Engine over the Cursor Store of src/db_utils.py, under each loop
InitFetch ==
    /\ CursorInit
    /\ IngestInit /\ pipeline = "modules"
    /\ FetchInit /\ impl = ImplOf(fetcher)
    /\ QueryInit
    /\ SweepInit
    /\ RaceInit
    /\ ConcIdle

SpecFetch == InitFetch /\ [][FetchNext]_vars

\* the same, with every request of a running loop answered in the end
FairSpecFetch == SpecFetch /\ WF_vars(FetchPage)

\* Retrieval over every collection
InitQuery ==
    /\ CursorInit /\ impl = "root"
    /\ IngestIdle /\ pipeline = "modules"
    /\ index \in Collections
    /\ FetchInit /\ fetcher = "old_fetch_data"
    /\ QueryInit
    /\ SweepInit
    /\ RaceInit
    /\ ConcIdle

SpecQuery == InitQuery /\ [][QueryNext]_vars

\* the cleanup sweep over every collection
InitSweep ==
    /\ CursorInit /\ impl = "root"
    /\ IngestIdle /\ pipeline = "main"
    /\ index \in SweepCollections
    /\ FetchInit /\ fetcher = "old_fetch_data"
    /\ QueryInit
    /\ SweepInit
    /\ RaceInit
    /\ ConcIdle

SpecSweep == InitSweep /\ [][SweepNext]_vars

\* two callers of save_cursor, under either db_utils module
InitRace ==
    /\ CursorInit
    /\ IngestInit /\ pipeline = "modules"
    /\ FetchInit /\ fetcher = "old_fetch_data"
    /\ QueryInit
    /\ SweepInit
    /\ RaceInit
    /\ ConcIdle

SpecRace == InitRace /\ [][RaceNext]_vars

\* two concurrent ingest runs on an empty collection, under either pipeline
InitConc ==
    /\ CursorInit /\ impl = "root"
    /\ IngestInit
    /\ FetchInit /\ fetcher = "old_fetch_data"
    /\ QueryInit
    /\ SweepInit
    /\ RaceInit
    /\ ConcInit

SpecConc == InitConc /\ [][ConcNext]_vars

\* the handlers side by side, the fetch loop being that of modules/fetcher.py
InitApp ==
    /\ CursorInit /\ impl = "root"
    /\ IngestInit /\ pipeline = "modules"
    /\ FetchInit /\ fetcher = "modules_fetcher"
    /\ QueryInit
    /\ SweepInit
    /\ RaceInit
    /\ ConcIdle

SpecApp == InitApp /\ [][AppNext]_vars

----------------------------------------------------------------------------
\* Claims about the Cursor Store.  The claims about what the operations
\* compute are stated for calls whose storage accesses succeed
\* (lastFail = "none"); C5 is the claim about the calls whose storage fails.

NoneLiteral == <<"n", "o", "n", "e">>

\* a stored value load_cursor treats as "no cursor"
IsNoneWord(v) == v # None /\ Lower(v) = NoneLiteral

\* the state a successful save_cursor(None) reaches from the same store
AfterSaveNone == save_cursor(impl, preRows, None, "none")

\* C3 as stated: after save_cursor(t), load_cursor() returns t trimmed (None for
\* t = None), and save_cursor of an empty or whitespace-only string leaves the
\* store as save_cursor(None) does.
C3_RoundTrip_AsStated ==
    (lastOp = "save_cursor" /\ lastFail = "none") =>
        /\ load_cursor(impl, rows, "none").ret = Normalized(lastArg)
        /\ (lastArg # None /\ Strip(lastArg) = <<>>) =>
               (rows = AfterSaveNone.rows /\ lastRet = AfterSaveNone.ret)

\* C3 amended: after save_cursor(t), load_cursor() returns t trimmed, except that
\* it returns None when the trimmed token is the word "none" in any letter case;
\* save_cursor(None) is followed by None; save_cursor of an empty or
\* whitespace-only string leaves the store and returns as save_cursor(None) does.
C3_RoundTrip ==
    (lastOp = "save_cursor" /\ lastFail = "none") =>
        /\ ~load_cursor(impl, rows, "none").raised
        /\ load_cursor(impl, rows, "none").ret =
               IF IsNoneWord(Normalized(lastArg)) THEN None
                                                  ELSE Normalized(lastArg)
        /\ (lastArg # None /\ Strip(lastArg) = <<>>) =>
               (rows = AfterSaveNone.rows /\ lastRet = AfterSaveNone.ret)

\* a padded token was saved and the load that follows returns it trimmed
C3_Witness ==
    /\ lastOp = "save_cursor" /\ lastFail = "none"
    /\ lastArg # None /\ Strip(lastArg) # lastArg /\ Strip(lastArg) # <<>>
    /\ load_cursor(impl, rows, "none").ret = Strip(lastArg)

\* C4: when the stored cursor value is the word "None" in any letter case, or
\* NULL, or there is no row, load_cursor() returns None.
C4_NoneDefense ==
    (lastOp = "load_cursor" /\ lastFail = "none"
       /\ (rows = <<>> \/ rows[1] = None \/ IsNoneWord(rows[1]))) =>
        (lastRet = None /\ ~lastRaised)

\* load_cursor ran on a store holding "None" in upper or mixed case
C4_Witness ==
    /\ lastOp = "load_cursor" /\ lastFail = "none"
    /\ rows # <<>> /\ IsNoneWord(rows[1]) /\ rows[1] # NoneLiteral
    /\ lastRet = None

\* C5: load_cursor() never raises; when its storage access fails it returns None
\* and the stored cursor is unchanged.
C5_LoadNeverRaises ==
    (lastOp = "load_cursor") =>
        /\ ~lastRaised
        /\ rows = preRows
        /\ (lastFail # "none" => lastRet = None)

\* the value load_cursor is to return after the last committed write
LastWriteWins ==
    /\ Len(rows) <= 1
    /\ (lastWrite.kind = "save" => rows = <<lastWrite.val>>)
    /\ (lastWrite.kind = "clear" => rows = <<>>)

\* C6 as stated: at most one row, holding the value of the last committed write,
\* and load_cursor() returns the normalized token of the most recent save_cursor
\* (None after a clear_cursor).
C6_LastWriteWins_AsStated ==
    /\ LastWriteWins
    /\ (lastOp = "load_cursor" /\ lastFail = "none") => lastRet = lastWrite.val

\* C6 amended: at most one row, holding the value of the last committed write;
\* load_cursor() returns the normalized token of the most recent save_cursor
\* (None after a clear_cursor), except that it returns None when that token is
\* the word "none" in any letter case.
C6_LastWriteWins ==
    /\ LastWriteWins
    /\ (lastOp = "load_cursor" /\ lastFail = "none") =>
           /\ ~lastRaised
           /\ lastRet = IF IsNoneWord(lastWrite.val) THEN None
                                                     ELSE lastWrite.val

\* a save_cursor replaced another stored value, the store holds one row, and
\* the load_cursor that follows returns the new token
C6_Witness ==
    /\ lastOp = "save_cursor" /\ lastFail = "none"
    /\ preRows # <<>> /\ Truthy(preRows[1]) /\ preRows # rows
    /\ lastWrite = [kind |-> "save", val |-> <<"a", " ", "b">>]
    /\ Len(rows) = 1
    /\ load_cursor(impl, rows, "none").ret = <<"a", " ", "b">>

\* C7: clear_cursor() on an empty store is no error, a second clear_cursor()
\* changes nothing, and load_cursor() after a clear_cursor() returns None.
C7_ClearIdempotent ==
    (lastOp = "clear_cursor" /\ lastFail = "none") =>
        /\ ~lastRaised
        /\ rows = <<>>
        /\ ~clear_cursor(impl, rows, "none").raised
        /\ clear_cursor(impl, rows, "none").rows = rows
        /\ load_cursor(impl, rows, "none").ret = None

\* clear_cursor ran on a store that held no cursor
C7_Witness ==
    /\ lastOp = "clear_cursor" /\ lastFail = "none"
    /\ preRows = <<>> /\ rows = <<>> /\ ~lastRaised

----------------------------------------------------------------------------
\* Claims about the Ingest Pipeline

\* C1: the counters process_and_store returns satisfy
\* processed = stored + skipped + errors, whatever the input list held.
C1_CounterConservation ==
    (pc = "returned") => processed = stored + skipped + errors

\* the category the running pipeline reads from an item
Category(item) ==
    IF pipeline = "modules" THEN process_item_modules(item).model
                            ELSE MetaBaseModel(item)

\* an Item eligible for ingestion: a non-empty prompt after trimming and a
\* category of the allow-list
Eligible(item) ==
    /\ item.kind = "dict" /\ item.hasMeta
    /\ Strip(item.prompt) # <<>>
    /\ Category(item) \in target_models

\* C2: when an item is ingested that was ingested before, unchanged, the index
\* holds exactly one record with its id and this ingestion is counted as
\* skipped, not as stored.
C2_IdempotentIngest ==
    lastDup =>
        /\ Cardinality({q \in index : q.id = lastItem.id}) = 1
        /\ lastOutcome \in {"skipped", "dropped"}

\* C9: an item whose prompt is empty after trimming or whose category is not in
\* the allow-list is counted as skipped and not written: every record of the
\* index was built from an eligible item.
C9_OnlyEligibleStored ==
    /\ \A q \in index : Eligible(q.item)
    /\ (lastOutcome # "none" /\ lastItem.kind = "dict" /\ ~Eligible(lastItem))
           => lastOutcome \in {"skipped", "dropped"}

----------------------------------------------------------------------------
\* Claims about the Fetch Engine

\* C8: once two consecutive pages of a run have returned the same nextCursor,
\* the run issues no further request.
C8_NoProgressHalt == ~reqAfterSame

----------------------------------------------------------------------------
\* Claims about Retrieval

\* the record of the collection a result came from
RecordOf(h) == CHOOSE q \in index : q.id = h.id

\* C10: get_similar_prompts returns at most k results, each from a record
\* whose category is exactly the one asked for, in descending order of score.
C10_FilteredTopK ==
    lastQuery.op = "query" =>
        /\ Len(hits) <= lastQuery.k
        /\ \A i \in 1..Len(hits) :
               /\ \E q \in index : q.id = hits[i].id
               /\ RecordOf(hits[i]).payload.model = lastQuery.model
        /\ \A i, j \in 1..Len(hits) : i < j => hits[i].score >= hits[j].score

\* a query answered with k results although more records of the category
\* exist, while a record of another category, with a prompt, scores higher
\* than every result
C10_Witness ==
    /\ lastQuery.op = "query" /\ lastQuery.fault = "none"
    /\ Len(hits) = lastQuery.k
    /\ Cardinality(Matches(index, lastQuery.model)) > lastQuery.k
    /\ \E q \in index :
           /\ q.payload.model # lastQuery.model
           /\ HasPrompt(q)
           /\ \A i \in 1..Len(hits) :
                  Score(Embed(lastQuery.prompt), q.vector) > hits[i].score

----------------------------------------------------------------------------
\* Claims about the cleanup sweep

\* the category of a stored record is in the allow-list
AllowListed(q) == PayloadBaseModel(q) \in target_models

\* C11: a sweep deletes exactly the records whose category is outside the
\* allow-list, whatever the size of the collection, and returns their number.
C11_SweepExact ==
    (lastSweep.op = "sweep" /\ lastSweep.fault = "none") =>
        /\ index = {q \in lastSweep.pre : AllowListed(q)}
        /\ lastSweep.ret = Cardinality(lastSweep.pre \ index)

C13_PartialResultsKept ==
    (fpc = "ended" /\ endReason = "error" /\ fetched > 0) => returned = fetched

\* the cursor a later "continue" run would start from
PersistedCursor ==
    IF fetcher = "main_fetcher"
    THEN (IF Truthy(sessionCursor) THEN sessionCursor ELSE None)
    ELSE load_cursor(impl, rows, "none").ret

\* C14: after every page received with items and a non-empty nextCursor, the
\* Cursor Store holds that nextCursor (its writes succeeding).
C14_CursorFollowsPages ==
    (lastResp.status = "ok" /\ lastResp.n > 0 /\ Truthy(lastResp.next)
        /\ lastSave = "none")
    => load_cursor(impl, rows, "none").ret = lastResp.next

\* C18: once a page has returned the very cursor it was requested with, the
\* run issues no further request.
C18_EchoHalts == ~reqAfterEcho

\* C20: after a run that ended because upstream reported no further pages
\* (no items, or no nextCursor), no cursor is persisted.
C20_ClearedAtEnd ==
    (fpc = "ended" /\ endReason \in {"exhausted", "no_cursor"})
    => PersistedCursor = None

\* C19: every run that has started ends, whatever the upstream answers.
C19_RunTerminates == (fpc = "fetching") ~> (fpc = "ended")

----------------------------------------------------------------------------
\* More claims about the Ingest Pipeline

\* C15: the embedding model is called for an item only after the collection
\* has been asked for the item's id, and never for an id already in it.
C15_ExistsBeforeEmbed ==
    lastSteps.embedded => (lastSteps.checked /\ ~lastSteps.present)

\* process_item of main.py was handed an item whose id is in the collection:
\* the check ran and the model was not called
C15_Witness ==
    /\ pipeline = "main"
    /\ lastSteps.present /\ lastSteps.checked /\ ~lastSteps.embedded
    /\ lastOutcome = "skipped"

\* C16: no item makes process_and_store raise; it goes through its whole
\* list and returns.
C16_BatchNeverAborts == pc # "raised"

\* C17: an item that passed every test and whose embedding or upsert failed
\* is counted in errors.
C17_FailureCountsAsError == lastSteps.failed => lastOutcome = "error"

----------------------------------------------------------------------------
\* More claims about the Fetch Engine

\* C21: the first request of a "new" run carries no cursor; the first request
\* of a "continue" run carries what load_cursor() returns (the read
\* succeeding), and no cursor when that is None.
C21_StartCursor ==
    (fpc = "fetching" /\ lastResp = NoResp /\ lastSave = "none") =>
        reqCursor = IF cont THEN load_cursor(impl, rows, "none").ret ELSE None

----------------------------------------------------------------------------
\* Claims about concurrent runs

\* C22: however two save_cursor calls interleave, both complete without
\* error and the store holds the one row of the call that committed last.
C22_RaceLastWriterWins ==
    (\A p \in Procs : sc[p].pc = "done") =>
        /\ \A p \in Procs : ~sc[p].failed
        /\ Len(rows) = 1
        /\ rows[1] = CursorStr(sc[lastCommitter].arg)

\* C23: when two ingest runs over the same items have both returned, whatever
\* the interleaving of their steps, the collection holds a record for an id
\* exactly when the list has an eligible item with that id, one record per
\* id, and each record carries the embedding of its item's prompt and that
\* item's payload: the end state of a single run. (Stated for runs in which
\* every load of the embedding model succeeded.)
AllDone == \A p \in Procs : runs[p].step = "done"

SingleRunRecord(item) ==
    IF pipeline = "main"
    THEN MainPoint(item)
    ELSE ModulesPoint(process_item_modules(item), item,
                      Embed(Strip(item.prompt)))

C23_ConcurrentRunsConverge ==
    (AllDone /\ ~loadFailed) =>
        /\ \A q \in index :
              /\ \E k \in 1..Len(batch) : batch[k] = q.item /\ Eligible(q.item)
              /\ q = SingleRunRecord(q.item)
        /\ \A k \in 1..Len(batch) :
              Eligible(batch[k]) => \E q \in index : q.id = batch[k].id
        /\ \A q1, q2 \in index : q1.id = q2.id => q1 = q2

\* C24: over any interleaving of get_model calls in the process, the
\* embedding model is constructed at most once and every caller holds the
\* same instance.
C24_ModelBuiltOnce ==
    /\ built <= 1
    /\ \A p1, p2 \in Procs :
          (runs[p1].model # 0 /\ runs[p2].model # 0) =>
              runs[p1].model = runs[p2].model

\* C25: the vector stored for an item is a function of its prompt text alone:
\* two records stored from items with the same prompt carry the same vector.
C25_VectorFromPrompt ==
    \A q1, q2 \in index :
        q1.item.prompt = q2.item.prompt => q1.vector = q2.vector

\* the prompt a record was stored with
StoredPrompt(q) ==
    IF q.by = "main" THEN q.payload.metaPrompt
                     ELSE process_item_modules(q.item).prompt

\* C26: every record the pipeline stored with category c and a non-empty
\* prompt is returned by some get_similar_prompts call filtered on c (one
\* whose limit covers the collection).
C26_StoredIsRetrievable ==
    \A q \in index :
        StoredPrompt(q) # <<>> =>
            \E res \in get_similar_prompts(index, <<"c">>, Category(q.item),
                                           Cardinality(index), "none") :
                \E i \in 1..Len(res) : res[i].id = q.id

\* C27: only the fetch loop and the clear button change the persisted cursor:
\* a step of process_and_store, of the sweep or of retrieval leaves
\* app_settings as it was, and every step that changes it is a page of the
\* fetch loop or the clear action.
C27_OnlyFetchAndClearWrite ==
    [][/\ (AppIngestItem \/ AppSweep \/ AppQuery) => rows' = rows
       /\ rows' # rows => (AppFetchPage \/ ClearSavedCursor)]_vars

\* a cursor is stored while process_and_store has stored a point and
\* retrieval has returned it
C27_Witness == rows # <<>> /\ index # {} /\ hits # <<>>

\* C28: after save_cursor(t), what it returned is what an immediately
\* following load_cursor() returns, for every token t (a failure of the
\* storage layer aside); and when the write failed it returned None and the
\* stored cursor is as it was before.
C28_ReturnIsPersisted ==
    lastOp = "save_cursor" =>
        /\ lastFail = "none" => load_cursor(impl, rows, "none").ret = lastRet
        /\ lastFail \in {"connect", "execute"} =>
              (lastRet = None /\ rows = preRows)

C30_NothingLostBehindCursor ==
    fpc = "ended" => returned >= covered

====
